---- MODULE Spec2Model ----
(***************************************************************************)
(* FastSlotMap (src/fastslotmap.rs): a generational slot map.  The         *)
(* container's fields are the variables values, generations, next_free,    *)
(* free_head and len; every public method is one action (the methods take  *)
(* &mut self or &self, so a call runs to completion on its own).  The u32  *)
(* arithmetic of the source is kept, at a reduced width: U32_MAX stands    *)
(* for u32::MAX, so that the wrap of a generation counter is reachable.    *)
(* Slot index i of the source is position i + 1 of the sequences here.     *)
(***************************************************************************)
EXTENDS Integers, Sequences, FiniteSets

\* u32::MAX: the free-list sentinel and the largest generation / len value
\* (scaled from 2^32 - 1 to 2^2 - 1).
U32_MAX == 3

\* number of values of a u32
U32_RANGE == U32_MAX + 1

\* the largest storage length explored (growth is unbounded in the source)
MaxSlots == 2

\* the largest number of successful removes explored
MaxRemoves == 5

\* the largest number of successful removes explored once the storage may
\* grow to 2^w slots
SentinelRemoves == 2

\* the number of removed keys the history remembers
HistoryDepth == MaxSlots + 1

\* the values offered to insert and written through get_mut
Values == {10, 20}

VARIABLES
    values,       \* Vec<T>
    generations,  \* Vec<u32>
    next_free,    \* Vec<AtomicU32>
    free_head,    \* AtomicU32
    len,          \* AtomicU32
    issued,       \* history: the keys insert has returned
    live,         \* history: key -> value, for keys returned and not yet removed
    removed,      \* history: the keys a remove has succeeded on
    removes,      \* history: the number of successful removes
    freed,        \* history: keys of successful removes not yet reused, newest first
    wrapped,      \* history: slots whose generation has overflowed to 0
    slot_removes, \* history: slot -> the number of successful removes of it
    issued_at,    \* history: key -> slot_removes of its slot when last returned
    max_len,      \* history: the largest value len has had
    threads,      \* thread -> the position and the locals of its call
    overlap,      \* history: the calls begun while another was in progress
    last          \* the last call: its name, key, value and result

vars == <<values, generations, next_free, free_head, len,
          issued, live, removed, removes, freed, wrapped,
          slot_removes, issued_at, max_len, threads, overlap, last>>

container == <<values, generations, next_free, free_head, len>>

----------------------------------------------------------------------------
\* Key { index, generation }
Key(i, g) == [index |-> i, generation |-> g]

\* Option<T>: None is the empty sequence, Some(v) a one-element sequence
None == <<>>

Some(v) == <<v>>

\* wrapping_add with the increment applied twice
wrapping_add_twice(x, n) == (x + n + n) % U32_RANGE

\* saturating_add in the place of wrapping_add
wrapping_add_saturating(x, n) == IF x + n > U32_MAX THEN U32_MAX ELSE x + n

\* u32::wrapping_add(x, 1)
wrapping_add(x, n) == (x + n) % U32_RANGE

\* AtomicU32::fetch_add(1) / fetch_sub(1): both wrap
fetch_add(x, n) == (x + n) % U32_RANGE

fetch_sub(x, n) == (x + U32_RANGE - n) % U32_RANGE

\* `usize as u32`: truncation
as_u32(n) == n % U32_RANGE

\* AtomicU32::compare_exchange(current, new) on a cell holding cell
compare_exchange(cell, current, new) ==
    IF cell = current THEN [ok |-> TRUE, cell |-> new]
                      ELSE [ok |-> FALSE, cell |-> cell]

\* slice indexing `v[i as usize]` is in bounds
InBounds(v, i) == i + 1 \in 1..Len(v)

\* the record of a call
Call(op, key, value, result, panicked) ==
    [op |-> op, key |-> key, value |-> value, result |-> result,
     panicked |-> panicked]

NoKey == Key(U32_MAX, U32_MAX)

\* the threads that may call into one container
Threads == {1, 2}

\* a thread outside any call
IdleThread ==
    [pc |-> "idle", key |-> NoKey, value |-> 0, free_index |-> U32_MAX,
     next |-> U32_MAX, index |-> U32_MAX, generation |-> 0,
     head |-> U32_MAX, attempts |-> 0]

----------------------------------------------------------------------------
\* FastSlotMap::new
Init ==
    /\ values = <<>>
    /\ generations = <<>>
    /\ next_free = <<>>
    /\ free_head = U32_MAX
    /\ len = 0
    /\ issued = {}
    /\ live = <<>>
    /\ removed = {}
    /\ removes = 0
    /\ freed = <<>>
    /\ wrapped = {}
    /\ slot_removes = <<>>
    /\ issued_at = <<>>
    /\ max_len = 0
    /\ threads = [t \in Threads |-> IdleThread]
    /\ overlap = 0
    /\ last = Call("new", NoKey, 0, None, FALSE)

\* get without the generation filter
get_ignores_generation(key) ==
    IF InBounds(values, key.index) THEN Some(values[key.index + 1]) ELSE None

\* FastSlotMap::get: values.get(index).filter(|_| generations[index] == generation)
get(key) ==
    IF InBounds(values, key.index)
       /\ generations[key.index + 1] = key.generation
    THEN Some(values[key.index + 1])
    ELSE None

\* FastSlotMap::contains
contains(key) == get(key) # None

\* FastSlotMap::is_empty
is_empty == len = 0

\* history kept beside a successful insert that returned key for value
InsertHistory(key, value) ==
    /\ issued' = issued \cup {key}
    /\ live' = [k \in (DOMAIN live) \cup {key} |->
                    IF k = key THEN value ELSE live[k]]
    /\ freed' = IF freed # <<>> /\ free_head # U32_MAX THEN Tail(freed) ELSE freed
    /\ slot_removes' = [i \in (DOMAIN slot_removes) \cup {key.index} |->
                            IF i \in DOMAIN slot_removes THEN slot_removes[i] ELSE 0]
    /\ issued_at' = [k \in (DOMAIN issued_at) \cup {key} |->
                         IF k = key THEN slot_removes'[key.index] ELSE issued_at[k]]
    /\ max_len' = IF len' > max_len THEN len' ELSE max_len
    /\ UNCHANGED <<removed, removes, wrapped>>
    /\ last' = Call("insert", key, value, None, FALSE)

\* the reuse branch without the write of the value
insert_reuse_keeps_value(value) ==
    LET free_index == free_head
        next == next_free[free_index + 1]
        cas == compare_exchange(free_head, free_index, next)
        index == free_index
        generation == generations[index + 1]
    IN  /\ free_index # U32_MAX
        /\ cas.ok
        /\ free_head' = cas.cell
        /\ len' = fetch_add(len, 1)
        /\ UNCHANGED <<values, generations, next_free>>
        /\ InsertHistory(Key(index, generation), value)

\* the reuse branch starting the slot again at generation 0
insert_reuse_resets_generation(value) ==
    LET free_index == free_head
        next == next_free[free_index + 1]
        cas == compare_exchange(free_head, free_index, next)
        index == free_index
    IN  /\ free_index # U32_MAX
        /\ cas.ok
        /\ free_head' = cas.cell
        /\ values' = [values EXCEPT ![index + 1] = value]
        /\ generations' = [generations EXCEPT ![index + 1] = 0]
        /\ len' = fetch_add(len, 1)
        /\ UNCHANGED next_free
        /\ InsertHistory(Key(index, 0), value)

\* the reuse branch leaving free_head on the slot it hands out
insert_reuse_keeps_head(value) ==
    LET free_index == free_head
        index == free_index
        generation == generations[index + 1]
    IN  /\ free_index # U32_MAX
        /\ values' = [values EXCEPT ![index + 1] = value]
        /\ len' = fetch_add(len, 1)
        /\ UNCHANGED <<generations, next_free, free_head>>
        /\ InsertHistory(Key(index, generation), value)

\* the reuse branch writing the value to the last slot of the storage
insert_reuse_wrong_slot(value) ==
    LET free_index == free_head
        next == next_free[free_index + 1]
        cas == compare_exchange(free_head, free_index, next)
        index == free_index
        generation == generations[index + 1]
    IN  /\ free_index # U32_MAX
        /\ cas.ok
        /\ free_head' = cas.cell
        /\ values' = [values EXCEPT ![Len(values)] = value]
        /\ len' = fetch_add(len, 1)
        /\ UNCHANGED <<generations, next_free>>
        /\ InsertHistory(Key(index, generation), value)

\* the reuse branch incrementing the generation of the slot it hands out
insert_reuse_bumps_generation(value) ==
    LET free_index == free_head
        next == next_free[free_index + 1]
        cas == compare_exchange(free_head, free_index, next)
        index == free_index
        generation == wrapping_add(generations[index + 1], 1)
    IN  /\ free_index # U32_MAX
        /\ cas.ok
        /\ free_head' = cas.cell
        /\ values' = [values EXCEPT ![index + 1] = value]
        /\ generations' = [generations EXCEPT ![index + 1] = generation]
        /\ len' = fetch_add(len, 1)
        /\ UNCHANGED next_free
        /\ InsertHistory(Key(index, generation), value)

\* insert, the branch that pops the head of the free list (lines 35-44)
insert_reuse(value) ==
    LET free_index == free_head
        next == next_free[free_index + 1]
        cas == compare_exchange(free_head, free_index, next)
        index == free_index
        generation == generations[index + 1]
    IN  /\ free_index # U32_MAX
        /\ cas.ok
        /\ free_head' = cas.cell
        /\ values' = [values EXCEPT ![index + 1] = value]
        /\ len' = fetch_add(len, 1)
        /\ UNCHANGED <<generations, next_free>>
        /\ InsertHistory(Key(index, generation), value)

\* the growth branch without the increment of len
insert_grow_skips_len(value) ==
    LET index == as_u32(Len(values))
    IN  /\ free_head = U32_MAX
        /\ values' = Append(values, value)
        /\ generations' = Append(generations, 0)
        /\ next_free' = Append(next_free, U32_MAX)
        /\ UNCHANGED <<free_head, len>>
        /\ InsertHistory(Key(index, 0), value)

\* the growth branch taking the index after the push of the value
insert_grow_index_after_push(value) ==
    LET index == as_u32(Len(values) + 1)
    IN  /\ free_head = U32_MAX
        /\ values' = Append(values, value)
        /\ generations' = Append(generations, 0)
        /\ next_free' = Append(next_free, U32_MAX)
        /\ len' = fetch_add(len, 1)
        /\ UNCHANGED free_head
        /\ InsertHistory(Key(index, 0), value)

\* the growth branch without the push of the next_free placeholder
insert_grow_without_link(value) ==
    LET index == as_u32(Len(values))
    IN  /\ free_head = U32_MAX
        /\ values' = Append(values, value)
        /\ generations' = Append(generations, 0)
        /\ len' = fetch_add(len, 1)
        /\ UNCHANGED <<free_head, next_free>>
        /\ InsertHistory(Key(index, 0), value)

\* insert, the branch that allocates a new slot (lines 45-53)
insert_grow(value) ==
    LET index == as_u32(Len(values))
    IN  /\ free_head = U32_MAX
        /\ values' = Append(values, value)
        /\ generations' = Append(generations, 0)
        /\ next_free' = Append(next_free, U32_MAX)
        /\ len' = fetch_add(len, 1)
        /\ UNCHANGED free_head
        /\ InsertHistory(Key(index, 0), value)

\* FastSlotMap::insert
insert(value) == insert_reuse(value) \/ insert_grow(value)

\* history kept beside a successful remove of key
RemoveHistory(key) ==
    /\ removed' = removed \cup {key}
    /\ removes' = removes + 1
    /\ live' = [k \in (DOMAIN live) \ {key} |-> live[k]]
    /\ freed' = SubSeq(<<key>> \o freed, 1,
                       IF Len(freed) + 1 < HistoryDepth THEN Len(freed) + 1
                                                        ELSE HistoryDepth)
    /\ wrapped' = IF wrapping_add(key.generation, 1) < key.generation
                  THEN wrapped \cup {key.index} ELSE wrapped
    /\ slot_removes' = [slot_removes EXCEPT ![key.index] = @ + 1]
    /\ max_len' = IF len' > max_len THEN len' ELSE max_len
    /\ UNCHANGED <<issued, issued_at>>

\* the removing branch without the increment of the generation
remove_valid_keeps_generation(key) ==
    LET i == key.index + 1
        value == values[i]
        head == free_head
        cas == compare_exchange(free_head, head, key.index)
    IN  /\ len' = fetch_sub(len, 1)
        /\ next_free' = [next_free EXCEPT ![i] = head]
        /\ cas.ok
        /\ free_head' = cas.cell
        /\ UNCHANGED <<values, generations>>
        /\ RemoveHistory(key)
        /\ last' = Call("remove", key, 0, Some(value), FALSE)

\* remove, the branch taken when the generation matches (lines 67-79)
remove_valid(key) ==
    LET i == key.index + 1
        value == values[i]
        head == free_head
        cas == compare_exchange(free_head, head, key.index)
    IN  /\ generations' = [generations EXCEPT ![i] = wrapping_add(generations[i], 1)]
        /\ len' = fetch_sub(len, 1)
        /\ next_free' = [next_free EXCEPT ![i] = head]
        /\ cas.ok
        /\ free_head' = cas.cell
        /\ UNCHANGED values
        /\ RemoveHistory(key)
        /\ last' = Call("remove", key, 0, Some(value), FALSE)

\* the test of remove: generations[key.index] == key.generation (line 66)
generation_matches(key) == generations[key.index + 1] = key.generation

\* remove without the test of the generation
remove_unchecked(key) ==
    IF ~InBounds(generations, key.index)
    THEN /\ last' = Call("remove", key, 0, None, TRUE)
         /\ UNCHANGED <<container, issued, live, removed, removes, freed, wrapped,
                     slot_removes, issued_at, max_len>>
    ELSE remove_valid(key)

\* FastSlotMap::remove; generations[key.index] is indexed unchecked (line 66)
remove(key) ==
    IF ~InBounds(generations, key.index)
    THEN /\ last' = Call("remove", key, 0, None, TRUE)
         /\ UNCHANGED <<container, issued, live, removed, removes, freed, wrapped,
                     slot_removes, issued_at, max_len>>
    ELSE IF generation_matches(key)
    THEN remove_valid(key)
    ELSE /\ last' = Call("remove", key, 0, None, FALSE)
         /\ UNCHANGED <<container, issued, live, removed, removes, freed, wrapped,
                     slot_removes, issued_at, max_len>>

\* get_mut without the generation filter
get_mut_unchecked(key, value) ==
    /\ IF InBounds(values, key.index)
       THEN /\ values' = [values EXCEPT ![key.index + 1] = value]
            /\ live' = [k \in DOMAIN live |-> IF k = key THEN value ELSE live[k]]
       ELSE UNCHANGED <<values, live>>
    /\ last' = Call("get_mut", key, value, get_ignores_generation(key), FALSE)
    /\ UNCHANGED <<generations, next_free, free_head, len,
                   issued, removed, removes, freed, wrapped,
                   slot_removes, issued_at, max_len>>

\* FastSlotMap::get_mut, followed by a write of value through the reference
get_mut(key, value) ==
    /\ IF get(key) # None
       THEN /\ values' = [values EXCEPT ![key.index + 1] = value]
            /\ live' = [k \in DOMAIN live |-> IF k = key THEN value ELSE live[k]]
       ELSE UNCHANGED <<values, live>>
    /\ last' = Call("get_mut", key, value, get(key), FALSE)
    /\ UNCHANGED <<generations, next_free, free_head, len,
                   issued, removed, removes, freed, wrapped,
                   slot_removes, issued_at, max_len>>

----------------------------------------------------------------------------
\* keys with an index beyond the storage (keys of a larger container)
OutOfRangeKeys == {Key(i, 0) : i \in Len(values)..MaxSlots}

\* the keys a caller can present: Key's fields are private, so every key
\* was returned by an insert, of this container or of a larger one
PresentableKeys == issued \cup OutOfRangeKeys

\* the storage grows while it holds fewer than MaxSlots slots
Insert ==
    \E value \in Values :
        /\ free_head # U32_MAX \/ Len(values) < MaxSlots
        /\ insert(value)
        /\ UNCHANGED <<threads, overlap>>

\* get moving the value out of the slot (a take in the place of a borrow)
Get_takes_value ==
    \E key \in PresentableKeys :
        /\ last' = Call("get", key, 0, get(key), FALSE)
        /\ values' = IF get(key) # None
                     THEN [values EXCEPT ![key.index + 1] = 0] ELSE values
        /\ UNCHANGED <<generations, next_free, free_head, len,
                       issued, live, removed, removes, freed, wrapped,
                       slot_removes, issued_at, max_len, threads, overlap>>

Get ==
    \E key \in PresentableKeys :
        /\ last' = Call("get", key, 0, get(key), FALSE)
        /\ UNCHANGED <<container, issued, live, removed, removes, freed, wrapped,
                     slot_removes, issued_at, max_len, threads, overlap>>

GetMut ==
    \E key \in PresentableKeys, value \in Values :
        /\ get_mut(key, value)
        /\ UNCHANGED <<threads, overlap>>

\* a remove that would succeed is explored while fewer than MaxRemoves have
Remove ==
    \E key \in PresentableKeys :
        /\ get(key) # None => removes < MaxRemoves
        /\ remove(key)
        /\ UNCHANGED <<threads, overlap>>

Next == Insert \/ Get \/ GetMut \/ Remove

Spec == Init /\ [][Next]_vars

----------------------------------------------------------------------------
\* The read-only methods beside the others.

\* a bool result, as a number
Bool(b) == IF b THEN 1 ELSE 0

Contains ==
    \E key \in PresentableKeys :
        /\ last' = Call("contains", key, 0, Some(Bool(contains(key))), FALSE)
        /\ UNCHANGED <<container, issued, live, removed, removes, freed, wrapped,
                       slot_removes, issued_at, max_len, threads, overlap>>

\* FastSlotMap::len
GetLen ==
    /\ last' = Call("len", NoKey, 0, Some(len), FALSE)
    /\ UNCHANGED <<container, issued, live, removed, removes, freed, wrapped,
                   slot_removes, issued_at, max_len, threads, overlap>>

IsEmpty ==
    /\ last' = Call("is_empty", NoKey, 0, Some(Bool(is_empty)), FALSE)
    /\ UNCHANGED <<container, issued, live, removed, removes, freed, wrapped,
                   slot_removes, issued_at, max_len, threads, overlap>>

NextReaders == Next \/ Contains \/ GetLen \/ IsEmpty

SpecReaders == Init /\ [][NextReaders]_vars

----------------------------------------------------------------------------
\* insert and remove with a storage that may grow until `values.len() as
\* u32` has taken every u32 value, u32::MAX included.

InsertToSentinel ==
    \E value \in Values :
        /\ free_head # U32_MAX \/ Len(values) < U32_RANGE
        /\ insert(value)
        /\ UNCHANGED <<threads, overlap>>

RemoveFew ==
    \E key \in issued :
        /\ get(key) # None => removes < SentinelRemoves
        /\ remove(key)
        /\ UNCHANGED <<threads, overlap>>

NextSentinel == InsertToSentinel \/ RemoveFew

SpecSentinel == Init /\ [][NextSentinel]_vars

----------------------------------------------------------------------------
\* The calls statement by statement.  insert and remove take &mut self,
\* which is what keeps two calls apart; here every statement of a call is a
\* step of its thread, and overlap counts the calls that began while
\* another was inside the container, as they could if the atomics were
\* relied on in place of the exclusive borrow.  The pushes of the growth
\* branch are taken as indivisible, which is one of the outcomes an
\* unsynchronised Vec::push can have.

\* the calls that may start while another call is in progress
MaxOverlaps == 1

\* the values the interleaved calls insert
StepValues == {10}

Busy(t) == threads[t].pc # "idle"

Exclusive == \A t \in Threads : ~Busy(t)

\* an insert that may still push a new slot
MayGrow(t) ==
    threads[t].pc \in {"insert_load", "insert_next", "insert_cas",
                       "grow_index", "grow_values"}

\* thread t enters a call; of two idle threads the first one enters.  The
\* calls are followed one at a time up to the first overlap and then until
\* the overlapping calls have returned, and an overlap is followed from
\* the states no generation wrap has led to.
Enter(t) ==
    /\ ~Busy(t)
    /\ IF Exclusive
       THEN t = 1 /\ overlap = 0 /\ overlap' = overlap
       ELSE overlap < MaxOverlaps /\ wrapped = {} /\ overlap' = overlap + 1

\* thread t goes on with the locals rec
Goto(t, rec) == threads' = [threads EXCEPT ![t] = rec]

\* thread t returns from its call
Return(t) == threads' = [threads EXCEPT ![t] = IdleThread]

\* what a returned insert adds to the history
InsertReturned(key, value) ==
    /\ issued' = issued \cup {key}
    /\ live' = [k \in (DOMAIN live) \cup {key} |->
                    IF k = key THEN value ELSE live[k]]
    /\ max_len' = IF len' > max_len THEN len' ELSE max_len
    /\ last' = Call("insert", key, value, None, FALSE)
    /\ UNCHANGED <<removed, removes, freed, wrapped, slot_removes, issued_at>>

\* what a returned remove adds to the history
RemoveReturned(key, value) ==
    /\ removed' = removed \cup {key}
    /\ live' = [k \in (DOMAIN live) \ {key} |-> live[k]]
    /\ last' = Call("remove", key, 0, Some(value), FALSE)
    /\ UNCHANGED <<issued, removes, freed, wrapped, slot_removes, issued_at,
                   max_len>>

\* the history a step inside a call leaves alone
history == <<issued, live, removed, removes, freed, wrapped, slot_removes,
             issued_at, max_len, last>>

\* an index out of bounds panics: the thread leaves its call, and what the
\* call has written so far stays
Panics(t, op) ==
    /\ Return(t)
    /\ last' = Call(op, threads[t].key, threads[t].value, None, TRUE)
    /\ UNCHANGED <<container, overlap, issued, live, removed, removes, freed,
                   wrapped, slot_removes, issued_at, max_len>>

\* insert is called
InsertCall(t) ==
    \E value \in StepValues :
        /\ Enter(t)
        /\ IF Exclusive
           THEN free_head # U32_MAX \/ Len(values) < MaxSlots
           ELSE Len(values) + Cardinality({u \in Threads : MayGrow(u)})
                    < MaxSlots
        /\ Goto(t, [IdleThread EXCEPT !.pc = "insert_load", !.value = value])
        /\ UNCHANGED <<container, history>>

\* let free_index = self.free_head.load(..); if free_index != u32::MAX
InsertLoad(t) ==
    /\ threads[t].pc = "insert_load"
    /\ Goto(t, [threads[t] EXCEPT
                   !.pc = IF free_head # U32_MAX THEN "insert_next"
                                                 ELSE "grow_index",
                   !.free_index = free_head,
                   !.attempts = @ + 1])
    /\ UNCHANGED <<container, overlap, history>>

\* let next_free = self.next_free[free_index as usize]
InsertNext(t) ==
    /\ threads[t].pc = "insert_next"
    /\ IF InBounds(next_free, threads[t].free_index)
       THEN /\ Goto(t, [threads[t] EXCEPT
                           !.pc = "insert_cas",
                           !.next = next_free[threads[t].free_index + 1]])
            /\ UNCHANGED <<container, overlap, history>>
       ELSE Panics(t, "insert")

\* the compare-exchange of insert with the expected value taken from the
\* successor it read
InsertCas_expects_next(t) ==
    LET cas == compare_exchange(free_head, threads[t].next, threads[t].next)
    IN  /\ threads[t].pc = "insert_cas"
        /\ free_head' = cas.cell
        /\ Goto(t, [threads[t] EXCEPT
                       !.pc = IF cas.ok THEN "insert_generation"
                                        ELSE "insert_load"])
        /\ UNCHANGED <<values, generations, next_free, len, overlap, history>>

\* the compare-exchange of insert that leaves the head where it was
InsertCas_keeps_head(t) ==
    LET cas == compare_exchange(free_head, threads[t].free_index,
                                threads[t].free_index)
    IN  /\ threads[t].pc = "insert_cas"
        /\ free_head' = cas.cell
        /\ Goto(t, [threads[t] EXCEPT
                       !.pc = IF cas.ok THEN "insert_generation"
                                        ELSE "insert_load"])
        /\ UNCHANGED <<values, generations, next_free, len, overlap, history>>

\* if self.free_head.compare_exchange(free_index, next_free, ..).is_ok(),
\* else the loop goes round
InsertCas(t) ==
    LET cas == compare_exchange(free_head, threads[t].free_index,
                                threads[t].next)
    IN  /\ threads[t].pc = "insert_cas"
        /\ free_head' = cas.cell
        /\ Goto(t, [threads[t] EXCEPT
                       !.pc = IF cas.ok THEN "insert_generation"
                                        ELSE "insert_load"])
        /\ UNCHANGED <<values, generations, next_free, len, overlap, history>>

\* let index = free_index; let generation = self.generations[index as usize]
InsertGeneration(t) ==
    /\ threads[t].pc = "insert_generation"
    /\ IF InBounds(generations, threads[t].free_index)
       THEN /\ Goto(t, [threads[t] EXCEPT
                           !.pc = "insert_write",
                           !.index = threads[t].free_index,
                           !.generation =
                               generations[threads[t].free_index + 1]])
            /\ UNCHANGED <<container, overlap, history>>
       ELSE Panics(t, "insert")

\* self.values[index as usize] = value
InsertWrite(t) ==
    /\ threads[t].pc = "insert_write"
    /\ IF InBounds(values, threads[t].index)
       THEN /\ values' = [values EXCEPT
                              ![threads[t].index + 1] = threads[t].value]
            /\ Goto(t, [threads[t] EXCEPT !.pc = "insert_len"])
            /\ UNCHANGED <<generations, next_free, free_head, len, overlap,
                           history>>
       ELSE Panics(t, "insert")

\* self.len.fetch_add(1, ..); return Key { index, generation }
InsertLen(t) ==
    /\ threads[t].pc = "insert_len"
    /\ len' = fetch_add(len, 1)
    /\ Return(t)
    /\ InsertReturned(Key(threads[t].index, threads[t].generation),
                      threads[t].value)
    /\ UNCHANGED <<values, generations, next_free, free_head, overlap>>

\* let index = self.values.len() as u32
GrowIndex(t) ==
    /\ threads[t].pc = "grow_index"
    /\ Goto(t, [threads[t] EXCEPT
                   !.pc = "grow_values",
                   !.index = as_u32(Len(values))])
    /\ UNCHANGED <<container, overlap, history>>

\* self.values.push(value)
GrowValues(t) ==
    /\ threads[t].pc = "grow_values"
    /\ values' = Append(values, threads[t].value)
    /\ Goto(t, [threads[t] EXCEPT !.pc = "grow_generations"])
    /\ UNCHANGED <<generations, next_free, free_head, len, overlap, history>>

\* self.generations.push(0)
GrowGenerations(t) ==
    /\ threads[t].pc = "grow_generations"
    /\ generations' = Append(generations, 0)
    /\ Goto(t, [threads[t] EXCEPT !.pc = "grow_next_free"])
    /\ UNCHANGED <<values, next_free, free_head, len, overlap, history>>

\* self.next_free.push(u32::MAX)
GrowNextFree(t) ==
    /\ threads[t].pc = "grow_next_free"
    /\ next_free' = Append(next_free, U32_MAX)
    /\ Goto(t, [threads[t] EXCEPT !.pc = "grow_len"])
    /\ UNCHANGED <<values, generations, free_head, len, overlap, history>>

\* self.len.fetch_add(1, ..); Key { index, generation: 0 }
GrowLen(t) ==
    /\ threads[t].pc = "grow_len"
    /\ len' = fetch_add(len, 1)
    /\ Return(t)
    /\ InsertReturned(Key(threads[t].index, 0), threads[t].value)
    /\ UNCHANGED <<values, generations, next_free, free_head, overlap>>

\* thread t is inside remove
Removing(t) ==
    threads[t].pc \in {"remove_check", "remove_generation", "remove_len",
                       "remove_value", "remove_head", "remove_next_free",
                       "remove_cas"}

\* remove is called with a key insert has returned; the calls that overlap
\* are two inserts or an insert and a remove
RemoveCall(t) ==
    \E key \in issued :
        /\ Enter(t)
        /\ \A u \in Threads : ~Removing(u)
        /\ (InBounds(generations, key.index) /\ generation_matches(key))
               => removes < MaxRemoves
        /\ Goto(t, [IdleThread EXCEPT !.pc = "remove_check", !.key = key])
        /\ UNCHANGED <<container, history>>

\* if self.generations[key.index as usize] != key.generation { return None; }
RemoveCheck(t) ==
    /\ threads[t].pc = "remove_check"
    /\ IF ~InBounds(generations, threads[t].key.index)
       THEN Panics(t, "remove")
       ELSE IF generation_matches(threads[t].key)
       THEN /\ Goto(t, [threads[t] EXCEPT !.pc = "remove_generation"])
            /\ UNCHANGED <<container, overlap, history>>
       ELSE /\ Return(t)
            /\ last' = Call("remove", threads[t].key, 0, None, FALSE)
            /\ UNCHANGED <<container, overlap, issued, live, removed, removes,
                           freed, wrapped, slot_removes, issued_at, max_len>>

\* self.generations[key.index as usize] =
\*     self.generations[key.index as usize].wrapping_add(1)
RemoveGeneration(t) ==
    LET i == threads[t].key.index + 1
    IN  /\ threads[t].pc = "remove_generation"
        /\ generations' = [generations EXCEPT ![i] = wrapping_add(@, 1)]
        /\ removes' = removes + 1
        /\ wrapped' = IF wrapping_add(generations[i], 1) < generations[i]
                      THEN wrapped \cup {threads[t].key.index} ELSE wrapped
        /\ Goto(t, [threads[t] EXCEPT !.pc = "remove_len"])
        /\ UNCHANGED <<values, next_free, free_head, len, overlap, issued,
                       live, removed, freed, slot_removes, issued_at, max_len,
                       last>>

\* self.len.fetch_sub(1, ..)
RemoveLen(t) ==
    /\ threads[t].pc = "remove_len"
    /\ len' = fetch_sub(len, 1)
    /\ Goto(t, [threads[t] EXCEPT !.pc = "remove_value"])
    /\ UNCHANGED <<values, generations, next_free, free_head, overlap,
                   history>>

\* let value = self.values[key.index as usize]
RemoveValue(t) ==
    /\ threads[t].pc = "remove_value"
    /\ IF InBounds(values, threads[t].key.index)
       THEN /\ Goto(t, [threads[t] EXCEPT
                           !.pc = "remove_head",
                           !.value = values[threads[t].key.index + 1]])
            /\ UNCHANGED <<container, overlap, history>>
       ELSE Panics(t, "remove")

\* let mut free_head = self.free_head.load(..), before the loop and again
\* after a compare-exchange that failed
RemoveHead(t) ==
    /\ threads[t].pc = "remove_head"
    /\ Goto(t, [threads[t] EXCEPT
                   !.pc = "remove_next_free",
                   !.head = free_head,
                   !.attempts = @ + 1])
    /\ UNCHANGED <<container, overlap, history>>

\* self.next_free[key.index as usize] = free_head
RemoveNextFree(t) ==
    /\ threads[t].pc = "remove_next_free"
    /\ IF InBounds(next_free, threads[t].key.index)
       THEN /\ next_free' = [next_free EXCEPT
                                 ![threads[t].key.index + 1] = threads[t].head]
            /\ Goto(t, [threads[t] EXCEPT !.pc = "remove_cas"])
            /\ UNCHANGED <<values, generations, free_head, len, overlap,
                           history>>
       ELSE Panics(t, "remove")

\* if self.free_head.compare_exchange(free_head, key.index, ..).is_ok()
\* { break; }, then Some(value)
RemoveCas(t) ==
    LET cas == compare_exchange(free_head, threads[t].head,
                                threads[t].key.index)
    IN  /\ threads[t].pc = "remove_cas"
        /\ free_head' = cas.cell
        /\ IF cas.ok
           THEN /\ Return(t)
                /\ RemoveReturned(threads[t].key, threads[t].value)
           ELSE /\ Goto(t, [threads[t] EXCEPT !.pc = "remove_head"])
                /\ UNCHANGED history
        /\ UNCHANGED <<values, generations, next_free, len, overlap>>

\* a statement of the call thread t is in
Step(t) ==
        \/ InsertLoad(t)
        \/ InsertNext(t)
        \/ InsertCas(t)
        \/ InsertGeneration(t)
        \/ InsertWrite(t)
        \/ InsertLen(t)
        \/ GrowIndex(t)
        \/ GrowValues(t)
        \/ GrowGenerations(t)
        \/ GrowNextFree(t)
        \/ GrowLen(t)
        \/ RemoveCheck(t)
        \/ RemoveGeneration(t)
        \/ RemoveLen(t)
        \/ RemoveValue(t)
        \/ RemoveHead(t)
        \/ RemoveNextFree(t)
        \/ RemoveCas(t)

NextInterleaved ==
    \E t \in Threads :
        \/ InsertCall(t)
        \/ RemoveCall(t)
        \/ Step(t)

SpecInterleaved == Init /\ [][NextInterleaved]_vars

\* the calls statement by statement under the exclusive borrow: a call
\* begins when no other is in progress
NextExclusive ==
    \E t \in Threads :
        \/ Exclusive /\ InsertCall(t)
        \/ Exclusive /\ RemoveCall(t)
        \/ Step(t)

\* a thread inside a call keeps running
SpecExclusive ==
    Init /\ [][NextExclusive]_vars /\ \A t \in Threads : WF_vars(Step(t))

----------------------------------------------------------------------------
\* The free list as the code walks it: the indices met from free_head along
\* next_free, at most n of them.
RECURSIVE Walk(_, _)
Walk(head, n) ==
    IF head = U32_MAX \/ n = 0 \/ ~InBounds(next_free, head)
    THEN <<>>
    ELSE <<head>> \o Walk(next_free[head + 1], n - 1)

\* where that walk stops: the sentinel, unless the chain is longer than n
\* or leaves the storage
RECURSIVE WalkEnd(_, _)
WalkEnd(head, n) ==
    IF head = U32_MAX \/ n = 0 \/ ~InBounds(next_free, head)
    THEN head
    ELSE WalkEnd(next_free[head + 1], n - 1)

FreeList == Walk(free_head, Len(next_free) + 1)

FreeSet == {FreeList[j] : j \in DOMAIN FreeList}

\* a key is valid (spec, data model 2): its slot is not on the free list
\* and its generation is the slot's
Valid(key) ==
    /\ InBounds(values, key.index)
    /\ key.index \notin FreeSet
    /\ generations[key.index + 1] = key.generation

\* the valid keys: one for each slot that is not on the free list
ValidKeys ==
    LET free == FreeSet
    IN  {Key(i - 1, generations[i]) : i \in {j \in DOMAIN values : j - 1 \notin free}}

----------------------------------------------------------------------------
\* C1: the key an insert returns is valid at once: get(k) is Some(v) and
\* contains(k) is true, on the reuse path and on the growth path alike.
C1_FreshKeyValid ==
    last.op = "insert" =>
        /\ get(last.key) = Some(last.value)
        /\ contains(last.key)

\* an insert that took a slot from the free list has just returned
C1_Witness ==
    /\ last.op = "insert"
    /\ last.key.generation > 0
    /\ Len(values) = MaxSlots
    /\ get(last.key) = Some(last.value)

\* C2: remove of a key that was returned by insert and not yet removed
\* returns the value stored for it; right after, get is None, contains is
\* false and a second remove would return None.
C2_RemoveInvalidates ==
    [][\A k \in DOMAIN live :
          (last'.op = "remove" /\ last'.key = k) =>
              /\ ~last'.panicked
              /\ last'.result = Some(live[k])
              /\ get(k)' = None
              /\ ~contains(k)'
              /\ InBounds(generations', k.index)
              /\ ~generation_matches(k)']_vars

\* a live key has just been removed, after its value was replaced
C2_Witness ==
    /\ last.op = "remove"
    /\ last.result = Some(20)
    /\ last.key \in removed
    /\ last.key \notin DOMAIN live
    /\ last.key.generation = 1
    /\ get(last.key) = None

\* C3 as stated: a key a remove has succeeded on is rejected ever after by
\* get and by remove, and no later insert returns it.
C3_RemovedNeverValid ==
    \A k \in removed :
        /\ get(k) = None
        /\ ~generation_matches(k)
        /\ last.op = "insert" => last.key # k

\* C3, amended: a removed key is rejected ever after, and never returned
\* again by insert, as long as the generation of its slot has not wrapped
\* around (the slot has been removed fewer than 2^32 times).
C3_RemovedNeverValidUntilWrap ==
    \A k \in removed :
        k.index \notin wrapped =>
            /\ get(k) = None
            /\ ~generation_matches(k)
            /\ last.op = "insert" => last.key # k

\* the slot of a removed key has just been reused under a new key
C3_Witness ==
    \E k \in removed :
        /\ k.index \notin wrapped
        /\ last.op = "insert"
        /\ last.key.index = k.index
        /\ last.key # k
        /\ get(last.key) = Some(last.value)
        /\ get(k) = None

\* the number of slots that are not on the free list
OccupiedSlots == Len(values) - Cardinality(FreeSet)

\* len() is the number of keys returned and not yet removed, which is the
\* number of slots off the free list; is_empty() says that number is zero
LenCountsLiveKeys ==
    /\ len = Cardinality(DOMAIN live)
    /\ len = OccupiedSlots
    /\ is_empty <=> Cardinality(DOMAIN live) = 0

\* C4 as stated: after every sequence of insert and remove calls, removes
\* with stale keys included, len() counts the live keys.
C4_LengthInvariant == LenCountsLiveKeys

\* C4, amended: len() counts the live keys as long as no slot's generation
\* has wrapped around.
C4_LengthInvariantUntilWrap == wrapped = {} => LenCountsLiveKeys

\* a remove with a stale key has just been refused, one key is live
C4_Witness ==
    /\ wrapped = {}
    /\ last.op = "remove"
    /\ last.result = None
    /\ ~last.panicked
    /\ last.key \in removed
    /\ Len(values) = MaxSlots
    /\ len = 1
    /\ ~is_empty

\* the free list ends at the sentinel, holds no index twice, holds indices
\* of the storage only and none of a live key
FreeListWellFormed ==
    /\ WalkEnd(free_head, Len(next_free) + 1) = U32_MAX
    /\ \A i, j \in DOMAIN FreeList : i # j => FreeList[i] # FreeList[j]
    /\ \A i \in DOMAIN FreeList : InBounds(values, FreeList[i])
    /\ \A k \in DOMAIN live : k.index \notin FreeSet

\* C5 as stated: the free list is well formed in every reachable state.
C5_FreeListWellFormed == FreeListWellFormed

\* C5, amended: the free list is well formed as long as no slot's
\* generation has wrapped around.
C5_FreeListWellFormedUntilWrap == wrapped = {} => FreeListWellFormed

\* two slots are chained on the free list
C5_Witness ==
    /\ wrapped = {}
    /\ Len(FreeList) = 2
    /\ FreeList[1] # FreeList[2]
    /\ last.op = "remove"
    /\ last.result # None

\* get(k) is Some exactly for the live key of a slot off the free list,
\* and a slot on the free list has the generation of no issued key
GenerationDecides ==
    \A k \in issued :
        /\ get(k) # None <=> (k.index \notin FreeSet /\ k \in DOMAIN live)
        /\ k.index \in FreeSet => generations[k.index + 1] # k.generation

\* C6 as stated: the generation check alone decides validity for every
\* key insert has returned.
C6_GenerationDecides == GenerationDecides

\* C6, amended: the generation check alone decides validity as long as no
\* slot's generation has wrapped around.
C6_GenerationDecidesUntilWrap == wrapped = {} => GenerationDecides

\* a slot is on the free list with a stale key, another holds a live key
C6_Witness ==
    /\ wrapped = {}
    /\ \E k \in issued : k.index \in FreeSet /\ get(k) = None
    /\ \E k \in issued : k.index \notin FreeSet /\ get(k) # None

\* remove(key) returned None and changed nothing
RemoveRefused(key) ==
    /\ last'.result = None
    /\ ~last'.panicked
    /\ UNCHANGED container

\* C7 as stated: remove of a key that is not valid (slot on the free list,
\* or another generation) returns None and changes nothing.
C7_InvalidRemoveNoOp ==
    [][LET k == last'.key
       IN  (/\ last'.op = "remove"
            /\ InBounds(values, k.index)
            /\ ~Valid(k)) => RemoveRefused(k)]_vars

\* C7, amended: remove of a key whose generation is not the slot's returns
\* None and changes nothing; a key whose slot is on the free list is
\* refused as long as no slot's generation has wrapped around.
C7_InvalidRemoveNoOpUntilWrap ==
    [][LET k == last'.key
       IN  (/\ last'.op = "remove"
            /\ InBounds(values, k.index)
            /\ \/ ~generation_matches(k)
               \/ k.index \in FreeSet /\ wrapped = {})
           => RemoveRefused(k)]_vars

\* a second remove of the same key has just been refused
C7_Witness ==
    /\ last.op = "remove"
    /\ last.result = None
    /\ ~last.panicked
    /\ last.key \in removed
    /\ last.key.index \in FreeSet
    /\ wrapped = {}

\* C8: get, get_mut, contains and remove of a key whose index is beyond the
\* storage return None without panicking.
C8_OutOfRangeAbsent ==
    (/\ last.op \in {"get", "get_mut", "remove"}
     /\ ~InBounds(values, last.key.index))
    => /\ ~last.panicked
       /\ last.result = None

\* C9 as stated: with a free list that is not empty, insert returns the slot
\* of the newest remove not yet reused, at the removed key's generation + 1,
\* which insert leaves as it is, and the storage does not grow.
C9_ReuseIsLifo ==
    [][(last'.op = "insert" /\ free_head # U32_MAX) =>
          /\ freed # <<>>
          /\ last'.key.index = Head(freed).index
          /\ last'.key.generation = Head(freed).generation + 1
          /\ last'.key.generation = generations[last'.key.index + 1]
          /\ generations' = generations
          /\ Len(values') = Len(values)]_vars

\* C9, amended: the same, as long as no slot's generation has wrapped
\* around (at the wrap the new generation is 0, not the old one + 1).
C9_ReuseIsLifoUntilWrap ==
    [][(last'.op = "insert" /\ free_head # U32_MAX /\ wrapped = {}) =>
          /\ freed # <<>>
          /\ last'.key.index = Head(freed).index
          /\ last'.key.generation = Head(freed).generation + 1
          /\ last'.key.generation = generations[last'.key.index + 1]
          /\ generations' = generations
          /\ Len(values') = Len(values)]_vars

\* two slots were removed and the newer one has just been reused
C9_Witness ==
    /\ last.op = "insert"
    /\ wrapped = {}
    /\ Len(freed) = 1
    /\ freed[1].index # last.key.index
    /\ last.key.generation = 1
    /\ last.key.index \notin FreeSet
    /\ freed[1].index \in FreeSet

\* C10: an insert, and a remove of another key, leave every valid key's
\* value and generation as they were; insert writes only the slot it
\* returns, remove only the generation and the link of the slot it removes.
C10_OthersUnaffected ==
    [][last'.op \in {"insert", "remove"} =>
         /\ \A kb \in ValidKeys :
               (last'.op = "remove" => last'.key # kb)
               => /\ get(kb)' = get(kb)
                  /\ generations'[kb.index + 1] = generations[kb.index + 1]
         /\ last'.op = "insert" =>
               \A i \in DOMAIN values :
                   i # last'.key.index + 1 =>
                       /\ values'[i] = values[i]
                       /\ generations'[i] = generations[i]
                       /\ next_free'[i] = next_free[i]
         /\ last'.op = "remove" =>
               /\ values' = values
               /\ \A i \in DOMAIN values :
                      i # last'.key.index + 1 =>
                          /\ generations'[i] = generations[i]
                          /\ next_free'[i] = next_free[i]]_vars

\* a slot has just been reused while another slot holds a different value
C10_Witness ==
    /\ last.op = "insert"
    /\ last.key.generation = 1
    /\ \E kb \in DOMAIN live :
          /\ kb.index # last.key.index
          /\ Valid(kb)
          /\ get(kb) = Some(live[kb])
          /\ live[kb] # last.value

\* C11: with an empty free list insert returns Key{index: n, generation: 0},
\* n the storage length before the call, and values, generations and
\* next_free each grow by one entry; the index of every key insert has
\* returned stays below the storage length.
C11_GrowthAndKeyBounds ==
    /\ [](\A k \in issued : k.index < Len(values))
    /\ [][(last'.op = "insert" /\ free_head = U32_MAX) =>
             /\ last'.key = Key(Len(values), 0)
             /\ values' = Append(values, last'.value)
             /\ generations' = Append(generations, 0)
             /\ Len(next_free') = Len(next_free) + 1]_vars

\* the storage has just grown to a second slot after the first was reused
C11_Witness ==
    /\ last.op = "insert"
    /\ last.key = Key(1, 0)
    /\ Len(values) = 2
    /\ Len(generations) = 2
    /\ Len(next_free) = 2
    /\ generations[1] > 0
    /\ \A k \in issued : k.index < Len(values)

\* the states of a slot
Occupied(i) == \E k \in DOMAIN live : k.index = i

SlotState(i) ==
    IF ~InBounds(values, i) THEN "Unallocated"
    ELSE IF Occupied(i) THEN "Occupied" ELSE "Free"

\* the step a slot may take: into Occupied by an insert that returns its
\* key at the slot's generation, into Free by a successful remove of its
\* current key, which sets the generation to bumped; nothing else changes
\* its state or its generation
SlotStep(i, bumped) ==
    LET a == SlotState(i)
        b == SlotState(i)'
    IN  /\ a = "Unallocated" /\ b # a =>
              /\ b = "Occupied"
              /\ last'.op = "insert"
              /\ last'.key = Key(i, 0)
              /\ generations'[i + 1] = 0
        /\ a = "Occupied" /\ b # a =>
              /\ b = "Free"
              /\ last'.op = "remove"
              /\ last'.key = Key(i, generations[i + 1])
              /\ last'.result # None
              /\ generations'[i + 1] = bumped
        /\ a = "Free" /\ b # a =>
              /\ b = "Occupied"
              /\ last'.op = "insert"
              /\ last'.key = Key(i, generations[i + 1])
              /\ generations'[i + 1] = generations[i + 1]
        /\ a # "Unallocated" /\ b = a =>
              generations'[i + 1] = generations[i + 1]

\* C12 as stated: every slot moves only along Unallocated -> Occupied(0)
\* -> Free(g + 1) -> Occupied(g + 1) -> ..., and its generation changes
\* only on Occupied -> Free, by exactly 1.
C12_SlotStateMachine ==
    [][\A i \in 0..(MaxSlots - 1) :
          SlotStep(i, IF InBounds(values, i) THEN generations[i + 1] + 1 ELSE 0)]_vars

\* C12, amended: the same as long as no slot's generation has wrapped
\* around before the step, the increment being taken modulo 2^32.
C12_SlotStateMachineUntilWrap ==
    [][wrapped = {} =>
          \A i \in 0..(MaxSlots - 1) :
              SlotStep(i, IF InBounds(values, i)
                          THEN (generations[i + 1] + 1) % U32_RANGE ELSE 0)]_vars

\* a slot is occupied for the third time, at generation 2
C12_Witness ==
    /\ wrapped = {}
    /\ last.op = "insert"
    /\ last.key.generation = 2
    /\ SlotState(last.key.index) = "Occupied"
    /\ \E i \in 0..(MaxSlots - 1) : SlotState(i) = "Free"

\* C14: remove increments the generation modulo 2^w and reports no error;
\* a key passes the generation check exactly when the number of successful
\* removes of its slot since it was returned is a multiple of 2^w.
C14_GenerationWraps ==
    /\ \A i \in DOMAIN slot_removes :
          generations[i + 1] = slot_removes[i] % U32_RANGE
    /\ \A k \in issued :
          generation_matches(k) <=>
              (slot_removes[k.index] - issued_at[k]) % U32_RANGE = 0
    /\ last.op = "remove" /\ last.result # None => ~last.panicked

\* a key passes the check again after 2^w removes of its slot, while a key
\* returned later is rejected
C14_Witness ==
    /\ \E k \in issued :
          /\ slot_removes[k.index] - issued_at[k] = U32_RANGE
          /\ generation_matches(k)
          /\ get(k) # None
    /\ \E k \in issued :
          /\ slot_removes[k.index] - issued_at[k] \in 1..U32_MAX
          /\ get(k) = None

\* get_mut(key) returned a reference and value was written through it:
\* nothing but the value of the key's slot has changed
Written(key) ==
    /\ last'.result # None
    /\ get(key)' = Some(last'.value)
    /\ generation_matches(key)'
    /\ UNCHANGED <<generations, next_free, free_head, len>>
    /\ \A i \in DOMAIN values :
          i # key.index + 1 => values'[i] = values[i]

\* get_mut(key) returned None and changed nothing
GetMutRefused(key) ==
    /\ last'.result = None
    /\ UNCHANGED container

\* C16 as stated: get_mut of a valid key writes only the key's value, which
\* get and remove return afterwards; get_mut of an invalid key returns None
\* and changes nothing.
C16_GetMutWritesOnlyValue ==
    [][\A k \in PresentableKeys :
          (last'.op = "get_mut" /\ last'.key = k) =>
              IF Valid(k) THEN Written(k) ELSE GetMutRefused(k)]_vars

\* C16, amended: get_mut of a key that passes the test of get writes only
\* the key's value; of a key that fails it, returns None and changes
\* nothing; a key whose slot is on the free list fails it as long as no
\* slot's generation has wrapped around.
C16_GetMutWritesOnlyValueUntilWrap ==
    [][\A k \in PresentableKeys :
          (last'.op = "get_mut" /\ last'.key = k) =>
              /\ IF get(k) # None THEN Written(k) ELSE GetMutRefused(k)
              /\ Valid(k) => Written(k)
              /\ ~InBounds(values, k.index) => GetMutRefused(k)
              /\ (InBounds(values, k.index) /\ k.index \in FreeSet /\ wrapped = {})
                 => GetMutRefused(k)]_vars

\* a value has just been replaced through get_mut beside another live key
C16_Witness ==
    /\ last.op = "get_mut"
    /\ last.result = Some(10)
    /\ last.value = 20
    /\ get(last.key) = Some(20)
    /\ Valid(last.key)
    /\ \E kb \in DOMAIN live : kb # last.key /\ get(kb) = Some(10)

\* the three vectors have one length
SameLength ==
    /\ Len(generations) = Len(values)
    /\ Len(next_free) = Len(values)

\* every slot is live or on the free list, and the storage length is the
\* largest len there has been
StorageAccounted ==
    /\ Len(values) = len + Cardinality(FreeSet)
    /\ Len(values) = max_len

\* C18 as stated: the storage is accounted for in every reachable state
\* and never shrinks.
C18_StorageAccounting ==
    /\ [](SameLength /\ StorageAccounted)
    /\ [][Len(values') >= Len(values)]_vars

\* C18, amended: the vectors have one length, which never decreases, and
\* the storage is accounted for as long as no slot's generation has wrapped
\* around.
C18_StorageAccountingUntilWrap ==
    /\ [](SameLength /\ (wrapped = {} => StorageAccounted))
    /\ [][Len(values') >= Len(values)]_vars

\* two slots, one live and one on the free list
C18_Witness ==
    /\ wrapped = {}
    /\ Len(values) = 2
    /\ len = 1
    /\ Cardinality(FreeSet) = 1
    /\ max_len = 2
    /\ last.op = "remove"
    /\ last.result # None

\* C13: get, contains, len and is_empty change nothing of the container,
\* whatever the key, and contains(k) is get(k).is_some().
C13_ReadersChangeNothing ==
    [][last'.op \in {"get", "contains", "len", "is_empty"} =>
          /\ UNCHANGED container
          /\ ~last'.panicked
          /\ last'.op = "get" => last'.result = get(last'.key)
          /\ last'.op = "contains" =>
                last'.result = Some(Bool(get(last'.key) # None))
          /\ last'.op = "len" => last'.result = Some(len)
          /\ last'.op = "is_empty" => last'.result = Some(Bool(len = 0))]_vars

\* contains has just reported a removed key absent while another is live
C13_Witness ==
    /\ last.op = "contains"
    /\ last.key \in removed
    /\ last.result = Some(0)
    /\ get(last.key) = None
    /\ len = 1

\* what the sequential claims say of the container between two calls
ContainerInvariants ==
    /\ SameLength
    /\ FreeListWellFormed
    /\ LenCountsLiveKeys
    /\ \A k \in DOMAIN live : get(k) = Some(live[k])

\* C15 as stated: as long as every call has run alone, the container's
\* invariants hold between two calls.
C15_ExclusiveAccessKeepsInvariants ==
    (Exclusive /\ overlap = 0) => ContainerInvariants

\* C15: as long as every call has run alone and no generation counter has
\* wrapped around, the container's invariants hold between two calls; the
\* state that violates them is reached by interleaving the statements of
\* two calls.
C15_ExclusiveAccessKeepsInvariantsUntilWrap ==
    (Exclusive /\ overlap = 0 /\ wrapped = {}) => ContainerInvariants

\* two inserts whose statements interleaved on the growth branch have both
\* returned the key of slot 0: two slots, len 2, one live key
C15_Witness ==
    /\ Exclusive
    /\ overlap > 0
    /\ wrapped = {}
    /\ removes = 0
    /\ last.op = "insert"
    /\ last.key = Key(0, 0)
    /\ issued = {Key(0, 0)}
    /\ Len(values) = 2
    /\ len = 2
    /\ Cardinality(DOMAIN live) = 1
    /\ ~LenCountsLiveKeys

\* the compare-exchange thread t is about to do finds free_head as the
\* thread loaded it
CasWillSucceed(t) ==
    /\ threads[t].pc = "insert_cas" =>
           compare_exchange(free_head, threads[t].free_index,
                            threads[t].next).ok
    /\ threads[t].pc = "remove_cas" =>
           compare_exchange(free_head, threads[t].head,
                            threads[t].key.index).ok

\* C17: as long as every call has run alone, each compare-exchange on
\* free_head succeeds at its first attempt, no loop body is entered a
\* second time, and every call that has begun returns.
C17_RetryLoopsTerminate ==
    /\ [](overlap = 0 =>
            \A t \in Threads : threads[t].attempts <= 1 /\ CasWillSucceed(t))
    /\ \A t \in Threads : Busy(t) ~> ~Busy(t)

\* a remove that ran alone has returned after one round of its loop, from
\* a free list that was not empty
C17_Witness ==
    /\ Exclusive
    /\ overlap = 0
    /\ last.op = "remove"
    /\ last.result # None
    /\ free_head = last.key.index
    /\ next_free[free_head + 1] # U32_MAX
    /\ removes > 1

\* C19: no key insert returns has the sentinel u32::MAX as its index, and
\* a successful remove leaves the removed slot reachable from free_head,
\* also when the storage has reached 2^w - 1 slots.
C19_SentinelNeverAnIndex ==
    /\ \A k \in issued : k.index # U32_MAX
    /\ (last.op = "remove" /\ last.result # None) => last.key.index \in FreeSet

====
